---- MODULE Spec2Model ----
(***************************************************************************)
(* Model of steamlit_app.py: the Streamlit script that turns a table of    *)
(* prediction rows into a shipment-level report (one row per               *)
(* BILL_OF_LADING).  The script is re-run top to bottom on every widget    *)
(* change; a run is modelled as the sequence of its stages                 *)
(*    filter -> check -> reduce -> project -> kpi -> done                  *)
(* with the two st.stop() exits halt_nomatch and halt_error.               *)
(*                                                                         *)
(* Representation.                                                         *)
(*  - A table is a sequence of rows; a row keeps its pandas index label    *)
(*    (idx), which filtering and sorting carry along.                      *)
(*  - Column names are strings, distinct after trimming.                   *)
(*  - Strings that are sorted (the identifier after astype(str)) are       *)
(*    sequences of character codes, compared lexicographically.            *)
(*  - STOP_NUMBER values are floats after pd.to_numeric; they are held in  *)
(*    halves (2 is 1.0, 5 is 2.5) so that int() truncation is visible.     *)
(*  - NaN is a value for which every comparison is false.                  *)
(*  - sort_values uses kind="quicksort", which does not promise the order  *)
(*    of rows with equal keys (numpy keeps it only while a partition has   *)
(*    at most 16 elements); tieRank is that order, fixed per build and     *)
(*    table, so that a run stays a deterministic function of its input.    *)
(*    The tables here are short, so tieRank stands for what the sort does  *)
(*    on the long tables the script is fed.                                *)
(*  - No file holds two columns whose names agree after upper().           *)
(*  - The "Single" mode of the stop filter (line 91) is never set and the  *)
(*    except branch of the sort (line 111) cannot be taken on str keys;    *)
(*    neither is modelled.                                                 *)
(***************************************************************************)
EXTENDS Integers, Sequences, FiniteSets, TLC

VARIABLES
    columns,          \* df_raw.columns (after strip), a set of names
    loaded,           \* the parsed content of the uploaded file (cache entry)
    df_raw,           \* the table the run works from
    tieRank,          \* idx -> rank among rows with the same string identifier
    stop_filter,      \* [on, lo, hi]: the slider's value, on = FALSE when None
    selected_lanes,   \* [on, set]: the lane multiselect, on = FALSE when None
    selected_buckets, \* the bucket multiselect's value, in selection order
    pc,               \* stage of the current run
    df_f,             \* filtered prediction rows
    aliased,          \* df_f is the same object as df_raw
    df_ship,          \* reduced rows
    show_cols,        \* projected column list
    out,              \* projected table rows
    kpi               \* the three metrics

vars == <<columns, loaded, df_raw, tieRank, stop_filter, selected_lanes,
          selected_buckets, pc, df_f, aliased, df_ship, show_cols, out, kpi>>

(* ------------------------------ bounds --------------------------------- *)
MaxRows == 2
MaxBucketRows == 1

(* ------------------------------ values --------------------------------- *)
NaN == -1
NA == "<NA>"
Absent == "<absent>"

\* character codes of the strings astype(str) produces
Digit(d) == 48 + d

RECURSIVE IntStr(_)
IntStr(n) == IF n < 10 THEN <<Digit(n)>> ELSE Append(IntStr(n \div 10), Digit(n % 10))

IntId(n) == [t |-> "int", n |-> n, s |-> <<>>]
StrId(s) == [t |-> "str", n |-> 0, s |-> s]
AbsentId == [t |-> "absent", n |-> 0, s |-> <<>>]

\* a conversion that is not the identity on a str (repr-like quoting)
AsStrQuoted(v) == StrId(<<39>> \o (IF v.t = "int" THEN IntStr(v.n) ELSE v.s) \o <<39>>)

\* astype(str) of one identifier cell
AsStr(v) == IF v.t = "int" THEN StrId(IntStr(v.n)) ELSE v

RECURSIVE LexLess(_, _)
LexLess(a, b) ==
    IF b = <<>> THEN FALSE
    ELSE IF a = <<>> THEN TRUE
    ELSE IF Head(a) # Head(b) THEN Head(a) < Head(b)
    ELSE LexLess(Tail(a), Tail(b))

SeqRange(s) == {s[i] : i \in 1..Len(s)}

SetMin(S) == CHOOSE x \in S : \A y \in S : x <= y
SetMax(S) == CHOOSE x \in S : \A y \in S : x >= y

(* --------------------------- schema resolution -------------------------- *)
\* str.upper() on the column names that occur
Upper(c) ==
    CASE c = "bill_of_lading" -> "BILL_OF_LADING"
      [] c = "accuracy_30_mins" -> "ACCURACY_30_MINS"
      [] OTHER -> c

None == "<None>"

\* cols = {c.upper(): c for c in df_raw.columns};  cols.get(key, default)
ColsGet(key, default) ==
    IF \E c \in columns : Upper(c) = key
    THEN CHOOSE c \in columns : Upper(c) = key
    ELSE default

BOL == ColsGet("BILL_OF_LADING", "BILL_OF_LADING")
CARRIER_NAME == ColsGet("CARRIER_NAME", None)
SHIPMENT_LANE == ColsGet("SHIPMENT_LANE", None)
STOP_NUMBER == ColsGet("STOP_NUMBER", None)
PING_COVERAGE == ColsGet("PING_COVERAGE", None)
TOTAL_PREDICTIONS == ColsGet("TOTAL_PREDICTIONS", None)

BUCKET_KEYS == <<30, 45, 60, 90, 120>>

CntName(m) ==
    CASE m = 30 -> "COUNT_OF_ACCURATE_PREDICTIONS_30_MINS"
      [] m = 45 -> "COUNT_OF_ACCURATE_PREDICTIONS_45_MINS"
      [] m = 60 -> "COUNT_OF_ACCURATE_PREDICTIONS_60_MINS"
      [] m = 90 -> "COUNT_OF_ACCURATE_PREDICTIONS_90_MINS"
      [] m = 120 -> "COUNT_OF_ACCURATE_PREDICTIONS_120_MINS"

AccName(m) ==
    CASE m = 30 -> "ACCURACY_30_MINS"
      [] m = 45 -> "ACCURACY_45_MINS"
      [] m = 60 -> "ACCURACY_60_MINS"
      [] m = 90 -> "ACCURACY_90_MINS"
      [] m = 120 -> "ACCURACY_120_MINS"

count_map == [m \in {k \in SeqRange(BUCKET_KEYS) : CntName(k) \in columns} |-> CntName(m)]
acc_map == [m \in {k \in SeqRange(BUCKET_KEYS) : AccName(k) \in columns} |-> AccName(m)]

\* a bucket offered when either member of its pair is present
IsAvailableEither(m) == m \in DOMAIN count_map \/ m \in DOMAIN acc_map

IsAvailable(m) == m \in DOMAIN count_map /\ m \in DOMAIN acc_map
available_buckets == SelectSeq(BUCKET_KEYS, IsAvailable)

(* ------------------------------ widgets --------------------------------- *)
\* int() of a non-negative float held in halves
ToInt(x) == x \div 2

valid_stops == {df_raw[i].stop : i \in 1..Len(df_raw)} \ {NaN}
HasStopFilter == STOP_NUMBER # None /\ STOP_NUMBER \in columns /\ valid_stops # {}
s_min == ToInt(SetMin(valid_stops))
s_max == ToInt(SetMax(valid_stops))
NoStopFilter == [on |-> FALSE, lo |-> 0, hi |-> 0]
DefaultStopFilter ==
    IF HasStopFilter THEN [on |-> TRUE, lo |-> s_min, hi |-> s_max] ELSE NoStopFilter

lanes == {df_raw[i].lane : i \in 1..Len(df_raw)} \ {NA}
HasLaneFilter == SHIPMENT_LANE # None /\ SHIPMENT_LANE \in columns /\ lanes # {}
NoLanes == [on |-> FALSE, set |-> {}]
DefaultLanes == IF HasLaneFilter THEN [on |-> TRUE, set |-> lanes] ELSE NoLanes

(* ------------------------------ row filter ------------------------------ *)
\* an upper bound that is not inclusive
StopInRangeExclusive(x, lo, hi) == x # NaN /\ x >= 2 * lo /\ x < 2 * hi

\* (df_f[STOP_NUMBER] >= lo) & (df_f[STOP_NUMBER] <= hi): false on NaN
StopInRange(x, lo, hi) == x # NaN /\ x >= 2 * lo /\ x <= 2 * hi

\* df_f[SHIPMENT_LANE].isin(selected_lanes)
LaneIsIn(x, S) == x \in S

StopActive(sf) == sf.on /\ STOP_NUMBER \in columns
LaneActive(sl) == sl.on /\ SHIPMENT_LANE \in columns

KeepRow(r, sf, sl) ==
    /\ StopActive(sf) => StopInRange(r.stop, sf.lo, sf.hi)
    /\ LaneActive(sl) => LaneIsIn(r.lane, sl.set)

RECURSIVE FilterRows(_, _, _)
FilterRows(df, sf, sl) ==
    IF df = <<>> THEN <<>>
    ELSE IF KeepRow(Head(df), sf, sl)
         THEN <<Head(df)>> \o FilterRows(Tail(df), sf, sl)
         ELSE FilterRows(Tail(df), sf, sl)

\* df_f = df_raw without the copy
NoCopyIsAlias == TRUE

\* df_raw.copy() gives a new object; boolean indexing gives a new object too
CopyIsAlias == FALSE
AliasAfterFilter(sf, sl) == CopyIsAlias /\ ~StopActive(sf) /\ ~LaneActive(sl)

\* the empty check left out
IsEmptyNever(df) == FALSE

\* df_f.empty
IsEmpty(df) == Len(df) = 0

(* --------------------------- shipment reducer --------------------------- *)
\* the identifier column left as loaded
CoerceIdsSkipped(df) == df

\* df_f[BOL] = df_f[BOL].astype(str)
RECURSIVE CoerceIds(_)
CoerceIds(df) ==
    IF df = <<>> THEN <<>>
    ELSE <<[Head(df) EXCEPT !.id = AsStr(@)]>> \o CoerceIds(Tail(df))

\* the order sort_values(by=[BOL]) puts two rows in: by the string, and among
\* equal strings in the order the sort algorithm happens to leave them
SortsBefore(a, b) ==
    \/ LexLess(a.id.s, b.id.s)
    \/ a.id.s = b.id.s /\ tieRank[a.idx] < tieRank[b.idx]

RECURSIVE InsertSorted(_, _)
InsertSorted(r, sorted) ==
    IF sorted = <<>> THEN <<r>>
    ELSE IF SortsBefore(r, Head(sorted)) THEN <<r>> \o sorted
    ELSE <<Head(sorted)>> \o InsertSorted(r, Tail(sorted))

RECURSIVE SortValues(_)
SortValues(df) ==
    IF df = <<>> THEN <<>> ELSE InsertSorted(Head(df), SortValues(Tail(df)))

\* drop_duplicates(subset=[BOL], keep="first")
RECURSIVE DropDuplicates(_, _)
DropDuplicates(df, seen) ==
    IF df = <<>> THEN <<>>
    ELSE IF Head(df).id \in seen THEN DropDuplicates(Tail(df), seen)
    ELSE <<Head(df)>> \o DropDuplicates(Tail(df), seen \cup {Head(df).id})

\* lines 108-110; the except branch cannot be taken once every key is a str
Reduction(df) == DropDuplicates(SortValues(CoerceIds(df)), {})

(* --------------------------- report projector --------------------------- *)
KeepPresent(cs) == SelectSeq(cs, LAMBDA c : c # None /\ c \in columns)

fixed_cols ==
    KeepPresent(<<BOL, CARRIER_NAME, SHIPMENT_LANE, PING_COVERAGE, TOTAL_PREDICTIONS>>)

RECURSIVE BucketCols(_)
BucketCols(sel) ==
    IF sel = <<>> THEN <<>>
    ELSE LET m == Head(sel)
         IN  (IF m \in DOMAIN count_map THEN <<count_map[m]>> ELSE <<>>)
             \o (IF m \in DOMAIN acc_map THEN <<acc_map[m]>> ELSE <<>>)
             \o BucketCols(Tail(sel))

\* show_cols = fixed_cols + bucket_cols, without the columns df_ship lacks
ShowCols(sel) == SelectSeq(fixed_cols \o BucketCols(sel), LAMBDA c : c \in columns)

AbsentNum == -2

\* one row of df_ship[show_cols]
ProjectRow(r, cs) ==
    [idx |-> r.idx,
     id |-> IF BOL \in SeqRange(cs) THEN r.id ELSE AbsentId,
     stop |-> IF STOP_NUMBER \in SeqRange(cs) THEN r.stop ELSE AbsentNum,
     lane |-> IF SHIPMENT_LANE \in SeqRange(cs) THEN r.lane ELSE Absent,
     ping |-> IF PING_COVERAGE \in SeqRange(cs) THEN r.ping ELSE AbsentNum]

ProjectRows(df, cs) == [i \in 1..Len(df) |-> ProjectRow(df[i], cs)]

(* ----------------------------- KPI summarizer --------------------------- *)
RECURSIVE SumSet(_, _)
SumSet(f, S) ==
    IF S = {} THEN 0
    ELSE LET i == CHOOSE j \in S : TRUE IN f[i] + SumSet(f, S \ {i})

\* f"{x:.2f}" of sum/n, in hundredths: round to nearest, ties to even
Round2(sum, n) ==
    LET q == (100 * sum) \div n
        r == (100 * sum) % n
    IN  IF 2 * r > n \/ (2 * r = n /\ q % 2 = 1) THEN q + 1 ELSE q

Dash == [kind |-> "dash", v |-> 0]
NanText == [kind |-> "nan", v |-> 0]

\* pd.to_numeric(out[PING_COVERAGE], errors="coerce").mean(), formatted
MeanText(df) ==
    LET num == {i \in 1..Len(df) : df[i].ping # NaN}
        pings == [i \in 1..Len(df) |-> df[i].ping]
    IN  IF num = {} THEN NanText
        ELSE [kind |-> "num", v |-> Round2(SumSet(pings, num), Cardinality(num))]

AvgPingCoverage(o, cs) ==
    IF PING_COVERAGE # None /\ PING_COVERAGE \in SeqRange(cs) THEN MeanText(o) ELSE Dash

\* df_ship[BOL].nunique()
NUnique(df) == Cardinality({df[i].id : i \in 1..Len(df)})

NoKpi == [shipments |-> 0, ping |-> [kind |-> "none", v |-> 0], rows |-> 0]

(* ------------------------------ uploaded files -------------------------- *)
IdVals == {IntId(9), IntId(10), StrId(<<Digit(1), Digit(0)>>)}
StopVals == {NaN, 2, 5, 6}
LaneVals == {NA, "E", "W"}
PingVals == {NaN, 1, 2}

RowSchemas ==
    { {"BILL_OF_LADING", "STOP_NUMBER"},
      {"bill_of_lading", "SHIPMENT_LANE"},
      {"BILL_OF_LADING", "PING_COVERAGE"},
      {"STOP_NUMBER", "SHIPMENT_LANE"} }

\* what the file holds of the column pair of threshold m
PairCols(m, st) ==
    CASE st = "none" -> {}
      [] st = "count" -> {CntName(m)}
      [] st = "accuracy" -> {AccName(m)}
      [] st = "both" -> {CntName(m), AccName(m)}
      [] st = "lowercase" -> {CntName(m), "accuracy_30_mins"}

PairStates(m) ==
    CASE m = 30 -> {"none", "count", "accuracy", "both", "lowercase"}
      [] m = 60 -> {"none", "count", "accuracy", "both"}
      [] OTHER -> {"none", "both"}

BucketSchemas ==
    { {"BILL_OF_LADING", "CARRIER_NAME", "TOTAL_PREDICTIONS"}
        \cup UNION {PairCols(m, st[m]) : m \in SeqRange(BUCKET_KEYS)} :
      st \in { f \in [SeqRange(BUCKET_KEYS) -> {"none", "count", "accuracy", "both", "lowercase"}] :
                 \A m \in SeqRange(BUCKET_KEYS) : f[m] \in PairStates(m) } }

HasIdColumn(schema) == \E c \in schema : Upper(c) = "BILL_OF_LADING"

RowVals(schema) ==
    [idx : {0},
     id : IF ~HasIdColumn(schema) THEN {AbsentId}
          ELSE IF schema \in RowSchemas THEN IdVals ELSE {IntId(9)},
     stop : IF "STOP_NUMBER" \in schema THEN StopVals ELSE {AbsentNum},
     lane : IF "SHIPMENT_LANE" \in schema THEN LaneVals ELSE {Absent},
     ping : IF "PING_COVERAGE" \in schema THEN PingVals ELSE {AbsentNum}]

Tables(schema, maxLen) ==
    UNION { { [i \in 1..n |-> [f[i] EXCEPT !.idx = i]] : f \in [1..n -> RowVals(schema)] } :
            n \in 0..maxLen }

SameKey(df, i, j) == AsStr(df[i].id) = AsStr(df[j].id)

TieRanks(df) ==
    LET n == Len(df)
        group(i) == {j \in 1..n : SameKey(df, i, j)}
    IN  IF ~HasIdColumn(columns) THEN {[i \in 1..n |-> i]}
        ELSE { t \in [1..n -> 1..n] :
                 \A i \in 1..n : {t[j] : j \in group(i)} = 1..Cardinality(group(i)) }

InjectiveSeqs(S) ==
    UNION { { q \in [1..k -> S] : \A i, j \in 1..k : i # j => q[i] # q[j] } :
            k \in 0..Cardinality(S) }

(* ------------------------------- the runs ------------------------------- *)
Terminal == {"done", "halt_nomatch", "halt_error"}

FreshRun ==
    /\ pc' = "filter"
    /\ df_f' = <<>>
    /\ aliased' = FALSE
    /\ df_ship' = <<>>
    /\ show_cols' = <<>>
    /\ out' = <<>>
    /\ kpi' = NoKpi

InitOn(schemas, maxLen) ==
    /\ columns \in schemas
    /\ loaded \in Tables(columns, maxLen)
    /\ df_raw = loaded
    /\ tieRank \in TieRanks(df_raw)
    /\ stop_filter = DefaultStopFilter
    /\ selected_lanes = DefaultLanes
    /\ selected_buckets = available_buckets
    /\ pc = "filter"
    /\ df_f = <<>>
    /\ aliased = FALSE
    /\ df_ship = <<>>
    /\ show_cols = <<>>
    /\ out = <<>>
    /\ kpi = NoKpi

Init == InitOn(RowSchemas, MaxRows) \/ InitOn(BucketSchemas, MaxBucketRows)

\* the slider is moved to any range within [s_min, s_max]: the script runs again
SetStopRange ==
    /\ pc \in Terminal
    /\ HasStopFilter
    /\ \E lo \in s_min..s_max, hi \in s_min..s_max :
          /\ lo <= hi
          /\ stop_filter' = [on |-> TRUE, lo |-> lo, hi |-> hi]
    /\ stop_filter' # stop_filter
    /\ FreshRun
    /\ UNCHANGED <<columns, loaded, df_raw, tieRank, selected_lanes, selected_buckets>>

\* the lane multiselect is changed: the script runs again
SetLanes ==
    /\ pc \in Terminal
    /\ HasLaneFilter
    /\ \E S \in SUBSET lanes : selected_lanes' = [on |-> TRUE, set |-> S]
    /\ selected_lanes' # selected_lanes
    /\ FreshRun
    /\ UNCHANGED <<columns, loaded, df_raw, tieRank, stop_filter, selected_buckets>>

\* the bucket multiselect is changed: the script runs again
SetBuckets ==
    /\ pc \in Terminal
    /\ \E sel \in InjectiveSeqs(SeqRange(available_buckets)) : selected_buckets' = sel
    /\ selected_buckets' # selected_buckets
    /\ FreshRun
    /\ UNCHANGED <<columns, loaded, df_raw, tieRank, stop_filter, selected_lanes>>

\* lines 86-98
ApplyFilters ==
    /\ pc = "filter"
    /\ df_f' = FilterRows(df_raw, stop_filter, selected_lanes)
    /\ aliased' = AliasAfterFilter(stop_filter, selected_lanes)
    /\ pc' = "check"
    /\ UNCHANGED <<columns, loaded, df_raw, tieRank, stop_filter, selected_lanes,
                   selected_buckets, df_ship, show_cols, out, kpi>>

\* lines 100-103
CheckEmpty ==
    /\ pc = "check"
    /\ pc' = IF IsEmpty(df_f) THEN "halt_nomatch" ELSE "reduce"
    /\ UNCHANGED <<columns, loaded, df_raw, tieRank, stop_filter, selected_lanes,
                   selected_buckets, df_f, aliased, df_ship, show_cols, out, kpi>>

\* lines 105-115
Reduce ==
    /\ pc = "reduce"
    /\ IF BOL \in columns
       THEN /\ df_f' = CoerceIds(df_f)
            /\ df_raw' = IF aliased THEN CoerceIds(df_raw) ELSE df_raw
            /\ df_ship' = Reduction(df_f)
            /\ pc' = "project"
       ELSE /\ pc' = "halt_error"
            /\ UNCHANGED <<df_f, df_raw, df_ship>>
    /\ UNCHANGED <<columns, loaded, tieRank, stop_filter, selected_lanes,
                   selected_buckets, aliased, show_cols, out, kpi>>

\* lines 117-138
Project ==
    /\ pc = "project"
    /\ show_cols' = ShowCols(selected_buckets)
    /\ out' = ProjectRows(df_ship, ShowCols(selected_buckets))
    /\ pc' = "kpi"
    /\ UNCHANGED <<columns, loaded, df_raw, tieRank, stop_filter, selected_lanes,
                   selected_buckets, df_f, aliased, df_ship, kpi>>

\* lines 140-165
Render ==
    /\ pc = "kpi"
    /\ kpi' = [shipments |-> NUnique(df_ship),
               ping |-> AvgPingCoverage(out, show_cols),
               rows |-> Len(df_f)]
    /\ pc' = "done"
    /\ UNCHANGED <<columns, loaded, df_raw, tieRank, stop_filter, selected_lanes,
                   selected_buckets, df_f, aliased, df_ship, show_cols, out>>

Next ==
    \/ SetStopRange
    \/ SetLanes
    \/ SetBuckets
    \/ ApplyFilters
    \/ CheckEmpty
    \/ Reduce
    \/ Project
    \/ Render

Spec == Init /\ [][Next]_vars

(* ------------------------------ properties ------------------------------ *)
Reduced == pc \in {"project", "kpi", "done"}
Reported == pc \in {"kpi", "done"}
Filtered == pc \notin {"filter"}

\* the string identifiers of the rows that survived the filter
SurvivingIds == {AsStr(df_f[i].id) : i \in 1..Len(df_f)}

\* C1: once a report is produced, it has exactly as many rows as there are
\* distinct string identifiers among the rows that survived the Row Filter,
\* and no identifier is in two report rows.
C1_ReportRowsAreDistinctIds ==
    Reported =>
        /\ Len(out) = Cardinality(SurvivingIds)
        /\ \A i, j \in 1..Len(out) : i # j => out[i].id # out[j].id
        /\ pc = "done" => kpi.shipments = Cardinality(SurvivingIds)

\* two surviving rows whose loaded identifiers differ (10 and "10") and that
\* the report holds as one shipment
C1_Witness ==
    /\ pc = "done"
    /\ Len(df_f) = 2
    /\ Len(out) = 1
    /\ loaded[df_f[1].idx].id # loaded[df_f[2].idx].id

\* the Row Filter's rule as the specification words it
RuleKeeps(r) ==
    /\ ~stop_filter.on
         \/ (r.stop # NaN /\ 2 * stop_filter.lo <= r.stop /\ r.stop <= 2 * stop_filter.hi)
    /\ ~selected_lanes.on
         \/ (r.lane # NA /\ r.lane \in selected_lanes.set)

\* C2: the filtered rows are exactly the loaded rows that satisfy (no stop
\* filter, or stop present and lo <= stop <= hi) and (no lane filter, or lane
\* present and selected), in the loaded order; a row whose stop or lane is
\* missing is excluded whenever that filter is active.
C2_RowFilterRule ==
    Filtered =>
        /\ \A i \in 1..Len(loaded) :
              (\E j \in 1..Len(df_f) : df_f[j].idx = i) <=> RuleKeeps(loaded[i])
        /\ \A j, k \in 1..Len(df_f) : j < k => df_f[j].idx < df_f[k].idx
        /\ \A j \in 1..Len(df_f) :
              /\ stop_filter.on => df_f[j].stop # NaN
              /\ selected_lanes.on => df_f[j].lane # NA

\* both filters at their default selection, a row without a stop number
\* dropped and another row kept
C2_Witness ==
    /\ pc = "check"
    /\ stop_filter.on /\ stop_filter = DefaultStopFilter
    /\ selected_lanes.on /\ selected_lanes = DefaultLanes
    /\ \E i \in 1..Len(loaded) : loaded[i].stop = NaN
    /\ Len(df_f) = 1

\* the selected thresholds in the order of BUCKET_KEYS
AscendingSelection == SelectSeq(BUCKET_KEYS, LAMBDA m : m \in SeqRange(selected_buckets))

\* C3: the projected column list is the fixed columns followed by the pairs
\* of the selected thresholds in ascending order, whatever the order of the
\* selection.
C3_BucketColumnsAscending ==
    Reported => show_cols = fixed_cols \o BucketCols(AscendingSelection)

\* C4: without an identifier column every run ends in the fatal error and in
\* no other outcome.
C4_NoIdColumnIsFatal ==
    (pc \in Terminal /\ ~HasIdColumn(columns)) => pc = "halt_error"

\* C5: after the empty check, the filtered rows are empty exactly in the
\* "no matching rows" halt; that halt has produced no reduction, projection
\* or KPI; a produced report has at least one row.
C5_EmptyHaltsBeforeReduction ==
    /\ pc \notin {"filter", "check"} => (Len(df_f) = 0 <=> pc = "halt_nomatch")
    /\ pc = "halt_nomatch" =>
          df_ship = <<>> /\ show_cols = <<>> /\ out = <<>> /\ kpi = NoKpi
    /\ Reported => Len(out) >= 1

\* a loaded table with rows and an identifier column, all rows filtered out
C5_Witness ==
    /\ pc = "halt_nomatch"
    /\ Len(loaded) >= 1
    /\ HasIdColumn(columns)

SelectedSet == SeqRange(selected_buckets)

\* C6: a threshold is available only with both columns of its pair in the
\* table, only available thresholds are selected, and in a report every
\* bucket column stands in a complete pair: count, then accuracy, adjacent.
C6_BucketsAreCompletePairs ==
    /\ \A m \in SeqRange(available_buckets) \cup SelectedSet :
          CntName(m) \in columns /\ AccName(m) \in columns
    /\ Reported =>
          \A i \in 1..Len(show_cols), m \in SeqRange(BUCKET_KEYS) :
              /\ show_cols[i] = CntName(m) =>
                    i < Len(show_cols) /\ show_cols[i + 1] = AccName(m)
              /\ show_cols[i] = AccName(m) =>
                    i > 1 /\ show_cols[i - 1] = CntName(m)

\* a report with a projected pair, from a table that also holds half a pair
C6_Witness ==
    /\ pc = "done"
    /\ selected_buckets # <<>>
    /\ \E m \in SeqRange(BUCKET_KEYS) :
          (CntName(m) \in columns) # (AccName(m) \in columns)

\* C7: the ping KPI is the sentinel when the column is absent or no reduced
\* record has a numeric value, and a number only when one has.
C7_PingSentinelWhenUndefined ==
    pc = "done" =>
        LET numeric == {i \in 1..Len(df_ship) : df_ship[i].ping \notin {NaN, AbsentNum}}
        IN  /\ numeric = {} => kpi.ping = Dash
            /\ numeric # {} => kpi.ping.kind = "num"

\* C8: reducing the reduced rows again gives the same rows in the same order.
C8_ReductionIdempotent ==
    Reduced => Reduction(df_ship) = df_ship

\* a reduction that reordered the rows and dropped none
C8_Witness ==
    /\ pc = "done"
    /\ Len(df_ship) = 2
    /\ df_ship[1].idx > df_ship[2].idx

\* the index of the earliest surviving row with the string identifier s
FirstOccurrence(s) ==
    SetMin({df_f[i].idx : i \in {j \in 1..Len(df_f) : AsStr(df_f[j].id).s = s}})

\* C9: every report row is the earliest surviving row of its shipment, and
\* the report is in strictly ascending order of the string identifier.
C9_FirstOccurrenceKept ==
    Reduced =>
        /\ \A k \in 1..Len(df_ship) :
              /\ \E j \in 1..Len(df_f) : df_f[j].idx = df_ship[k].idx
              /\ df_ship[k].idx = FirstOccurrence(df_ship[k].id.s)
        /\ \A k \in 1..(Len(df_ship) - 1) : LexLess(df_ship[k].id.s, df_ship[k + 1].id.s)

\* the outcome of a run as a function of the loaded table and the widgets
OutcomeOf(table) ==
    LET f == FilterRows(table, stop_filter, selected_lanes)
        ship == Reduction(f)
        cs == ShowCols(selected_buckets)
        o == ProjectRows(ship, cs)
    IN  IF IsEmpty(f) THEN [pc |-> "halt_nomatch", df_ship |-> <<>>, show_cols |-> <<>>,
                            out |-> <<>>, kpi |-> NoKpi]
        ELSE IF BOL \notin columns
             THEN [pc |-> "halt_error", df_ship |-> <<>>, show_cols |-> <<>>,
                   out |-> <<>>, kpi |-> NoKpi]
        ELSE [pc |-> "done", df_ship |-> ship, show_cols |-> cs, out |-> o,
              kpi |-> [shipments |-> NUnique(ship), ping |-> AvgPingCoverage(o, cs),
                       rows |-> Len(f)]]

\* C10: no stage of any run changes the loaded table, and what a finished
\* run shows depends on the loaded table and the current widget values only.
C10_LoadedTableUntouched ==
    /\ df_raw = loaded
    /\ pc \in Terminal =>
          [pc |-> pc, df_ship |-> df_ship, show_cols |-> show_cols, out |-> out, kpi |-> kpi]
              = OutcomeOf(loaded)

\* a finished report of a later run, under a stop range that is not the default
C10_Witness ==
    /\ pc = "done"
    /\ stop_filter.on /\ stop_filter # DefaultStopFilter
    /\ \E i \in 1..Len(loaded) : loaded[i].id.t = "int"

====
